---- MODULE Spec2Model ----
(***************************************************************************)
(* A model of the code executor of DocInsights                             *)
(* (utils/code_executor.py) and of the artifact discovery that the report  *)
(* agent runs on its result (agents/report_agent.py).                      *)
(*                                                                         *)
(* The process-wide state that execute_python_code touches is explicit:    *)
(* the working directory, sys.path, sys.stdout / sys.stderr, the open      *)
(* matplotlib figures and the file system.  Each call is a sequence of     *)
(* steps of one thread, so that calls of two threads can interleave.       *)
(*                                                                         *)
(* Text is modelled as the sequence of its words; a word that is a path    *)
(* with an image extension carries its directory part.                     *)
(***************************************************************************)
EXTENDS Integers, Sequences, FiniteSets, TLC

\* total number of execute_python_code calls of a behaviour
MaxCalls == 2

Threads == {"t1", "t2"}
\* the thread on which the agents make their calls one after the other
Main == "t1"

---------------------------------------------------------------------------
\* Directories.  A directory is a pair <<root, n>>.
OrigDir == <<"app", 0>>       \* the working directory the process starts in
OtherDir == <<"data", 0>>     \* some other directory submitted code may enter
RelDir == <<"", 0>>           \* the empty directory part of a relative path

\* tempfile.mkdtemp(): the n-th call gets a directory no earlier call got
mkdtemp(n) == <<"tmp", n>>

ScratchDirs == {mkdtemp(n) : n \in 1..(MaxCalls + 1)}

---------------------------------------------------------------------------
\* Text.
W(s) == [w |-> s, dir |-> RelDir, img |-> FALSE]
\* a path whose name ends in .png/.jpg/.jpeg/.svg/.pdf
P(d, n) == [w |-> n, dir |-> d, img |-> TRUE]

None == "None"

Hello == <<W("hello")>>
SavedChart == <<W("saved"), W("to"), P(RelDir, "chart.png")>>
\* a phrase that several patterns match, naming a file of the caller's directory
SavedLogo == <<W("Saved"), P(RelDir, "logo.png")>>
Warn == <<W("warning")>>

\* What a submitted program does when it runs, in this order: one file-system
\* operation, drawing a figure, writing to stdout and stderr, and how it ends.
Programs ==
    [out : {<<>>, Hello, SavedChart, SavedLogo},
     err : {<<>>, Warn},
     fsop : {"none", "chdir", "rmapp", "rmcwd", "rmcode", "mkchart", "setstreams"},
     fig : BOOLEAN,
     end : {"ok", "raise", "exit"}]
    \cup
    \* a program that does not compile does nothing
    [out : {<<>>}, err : {<<>>}, fsop : {"none"}, fig : {FALSE}, end : {"syntax"}]

\* the data path of a call: absent, or the file data.csv of OtherDir
DataPaths == {None, "data.csv"}
DataFile == [dir |-> OtherDir, name |-> "data.csv", recent |-> FALSE]

\* str(e) of the exceptions of the model
Message(e) ==
    CASE e = "ValueError" -> "boom"
      [] e = "SyntaxError" -> "invalid syntax"
      [] e = "FileNotFoundError" -> "No such file or directory"
      [] OTHER -> ""

\* traceback.format_exc(): the header, then the exception's type and message
FormatExc(e) == <<W("Traceback"), W(e), W(Message(e))>>

\* "except Exception" catches these; SystemExit is a BaseException only
IsException(e) == e \in {"ValueError", "SyntaxError", "FileNotFoundError"}

---------------------------------------------------------------------------
VARIABLES
    dirs,         \* the directories that exist
    files,        \* the image files that exist: [dir, name, recent]
    code_files,   \* the temporary code files that exist (by call number)
    os_cwd,       \* the process-wide working directory
    sys_path,     \* sys.path
    sys_stdout,   \* sys.stdout: "orig" or the thread whose buffer it is
    sys_stderr,   \* sys.stderr
    bufOut,       \* the StringIO each call made for stdout
    bufErr,       \* the StringIO each call made for stderr
    figs,         \* the open matplotlib figures (by the call that drew them)
    ncalls,       \* calls started so far
    pc,           \* where each thread is in execute_python_code
    local,        \* the local variables of each thread's call
    outcome,      \* how each thread's last call ended
    pre,          \* the process state when each thread's call began
    image_files,  \* what the caller extracted from the last result
    response,     \* what ExcelAgent answered from the last result
    norm,         \* a run of _clean_code_for_execution: input and outputs
    memory,       \* a ChatMemory object
    app           \* a session of the Streamlit app and its RouterAgent

\* the variables of execute_python_code and its caller
execVars == <<dirs, files, code_files, os_cwd, sys_path, sys_stdout,
              sys_stderr, bufOut, bufErr, figs, ncalls, pc, local, outcome,
              pre, image_files, response>>

vars == <<dirs, files, code_files, os_cwd, sys_path, sys_stdout, sys_stderr,
          bufOut, bufErr, figs, ncalls, pc, local, outcome, pre, image_files,
          response, norm, memory, app>>

NoLocal ==
    [code |-> [out |-> <<>>, err |-> <<>>, fsop |-> "none", fig |-> FALSE,
               end |-> "ok"],
     file_path |-> None, n |-> 0, temp_dir |-> RelDir, cwd |-> RelDir,
     temp_file_path |-> 0, old_stdout |-> "orig", old_stderr |-> "orig",
     scope |-> None, ran_in |-> RelDir, path_at_run |-> <<>>,
     pending |-> "none", e |-> "none", plot |-> FALSE, ret |-> <<>>]

NoPre == [cwd |-> RelDir, path |-> <<>>, figs |-> <<>>,
          stdout |-> "orig", stderr |-> "orig"]

\* no answer of ExcelAgent._handle_visualization_query
NoResponse == [kind |-> "none", names |-> <<>>]

\* a new session of the app (app.py lines 34-47): no API key, no router, no
\* document, nothing in the file uploader, no query routed
NoApp ==
    [router_agent |-> FALSE, documents |-> {}, router_documents |-> <<>>,
     uploaded_file |-> "None", routed |-> {}]

\* no run of the normaliser, no ChatMemory object
NoNorm == [stage |-> "none", code |-> <<>>, out |-> <<>>, again |-> <<>>]
NoMemory ==
    [max_history |-> 0, messages |-> <<>>, made |-> FALSE, calls |-> 0,
     added |-> <<>>, asked |-> -1, got |-> <<>>]

\* the process before any call
ExecInit ==
    /\ dirs = {OrigDir, OtherDir}
    /\ files = {[dir |-> OrigDir, name |-> "logo.png", recent |-> FALSE], DataFile}
    /\ code_files = {}
    /\ os_cwd = OrigDir
    /\ sys_path = <<OrigDir>>
    /\ sys_stdout = "orig"
    /\ sys_stderr = "orig"
    /\ bufOut = [t \in Threads |-> <<>>]
    /\ bufErr = [t \in Threads |-> <<>>]
    /\ figs = <<>>
    /\ ncalls = 0
    /\ pc = [t \in Threads |-> "idle"]
    /\ local = [t \in Threads |-> NoLocal]
    /\ outcome = [t \in Threads |-> "none"]
    /\ pre = [t \in Threads |-> NoPre]
    /\ image_files = [t \in Threads |-> <<>>]
    /\ response = [t \in Threads |-> NoResponse]

Init ==
    /\ ExecInit
    /\ norm = NoNorm
    /\ memory = NoMemory
    /\ app = NoApp

---------------------------------------------------------------------------
\* Helpers on sequences.
RECURSIVE RemoveFirst(_, _)
\* list.remove(x): drops the first occurrence
RemoveFirst(s, x) ==
    IF s = <<>> THEN <<>>
    ELSE IF Head(s) = x THEN Tail(s)
    ELSE <<Head(s)>> \o RemoveFirst(Tail(s), x)

InSeq(x, s) == \E i \in 1..Len(s) : s[i] = x

\* a write to sys.stdout / sys.stderr lands in the buffer currently installed
WriteTo(buf, stream, text) ==
    IF stream \in Threads THEN [buf EXCEPT ![stream] = @ \o text] ELSE buf

InFlight(t) == pc[t] \notin {"idle", "done"}

---------------------------------------------------------------------------
\* execute_python_code, lines 36-43: make the scratch directory, record the
\* working directory.  `code` is what the normalised code of line 39 does
\* when it runs.  os.getcwd() raises when the
\* working directory no longer exists, and that is outside the try.
Call(t, code, file_path) ==
    /\ pc[t] = "idle"
    /\ ncalls < MaxCalls
    /\ LET n == ncalls + 1
           temp_dir == mkdtemp(n)
       IN /\ ncalls' = n
          /\ dirs' = dirs \cup {temp_dir}
          /\ pre' = [pre EXCEPT ![t] =
                        [cwd |-> os_cwd, path |-> sys_path, figs |-> figs,
                         stdout |-> sys_stdout, stderr |-> sys_stderr]]
          /\ IF os_cwd \in dirs
             THEN /\ local' = [local EXCEPT ![t] =
                        [NoLocal EXCEPT !.code = code, !.file_path = file_path,
                                        !.n = n, !.temp_dir = temp_dir,
                                        !.cwd = os_cwd]]
                  /\ pc' = [pc EXCEPT ![t] = "try"]
                  /\ outcome' = [outcome EXCEPT ![t] = "none"]
             ELSE /\ local' = [local EXCEPT ![t] =
                        [NoLocal EXCEPT !.code = code, !.file_path = file_path,
                                        !.n = n, !.temp_dir = temp_dir,
                                        !.pending = "FileNotFoundError"]]
                  /\ pc' = [pc EXCEPT ![t] = "done"]
                  /\ outcome' = [outcome EXCEPT ![t] = "raised"]
    /\ image_files' = [image_files EXCEPT ![t] = <<>>]
    /\ response' = [response EXCEPT ![t] = NoResponse]
    /\ UNCHANGED <<app, norm, memory, files, code_files, os_cwd, sys_path, sys_stdout, sys_stderr,
                   bufOut, bufErr, figs>>

\* lines 45-61 with a globals dictionary that lacks file_path
Try_NoFilePath(t) ==
    /\ pc[t] = "try"
    /\ IF local[t].temp_dir \in dirs
       THEN /\ os_cwd' = local[t].temp_dir
            /\ sys_path' = <<local[t].temp_dir>> \o sys_path
            /\ code_files' = code_files \cup {local[t].n}
            /\ local' = [local EXCEPT ![t].temp_file_path = local[t].n]
            /\ pc' = [pc EXCEPT ![t] = "capture"]
       ELSE /\ local' = [local EXCEPT ![t].pending = "FileNotFoundError"]
            /\ pc' = [pc EXCEPT ![t] = "except"]
            /\ UNCHANGED <<os_cwd, sys_path, code_files>>
    /\ UNCHANGED <<app, response, norm, memory, dirs, files, sys_stdout, sys_stderr, bufOut,
                   bufErr, figs, ncalls, outcome, pre, image_files>>

\* lines 45-61: enter the scratch directory, build the globals, extend
\* sys.path, write the code to a temporary file
Try(t) ==
    /\ pc[t] = "try"
    /\ IF local[t].temp_dir \in dirs
       THEN /\ os_cwd' = local[t].temp_dir
            /\ sys_path' = <<local[t].temp_dir>> \o sys_path
            /\ code_files' = code_files \cup {local[t].n}
            /\ local' = [local EXCEPT ![t].scope = local[t].file_path,
                                      ![t].temp_file_path = local[t].n]
            /\ pc' = [pc EXCEPT ![t] = "capture"]
       ELSE /\ local' = [local EXCEPT ![t].pending = "FileNotFoundError"]
            /\ pc' = [pc EXCEPT ![t] = "except"]
            /\ UNCHANGED <<os_cwd, sys_path, code_files>>
    /\ UNCHANGED <<app, response, norm, memory, dirs, files, sys_stdout, sys_stderr, bufOut, bufErr, figs,
                   ncalls, outcome, pre, image_files>>

\* capture_output, lines 19-22: two fresh buffers; redirect_stdout and
\* redirect_stderr remember the streams installed now and install the buffers
capture_output(t) ==
    /\ pc[t] = "capture"
    /\ bufOut' = [bufOut EXCEPT ![t] = <<>>]
    /\ bufErr' = [bufErr EXCEPT ![t] = <<>>]
    /\ local' = [local EXCEPT ![t].old_stdout = sys_stdout,
                              ![t].old_stderr = sys_stderr]
    /\ sys_stdout' = t
    /\ sys_stderr' = t
    /\ pc' = [pc EXCEPT ![t] = "exec"]
    /\ UNCHANGED <<app, response, norm, memory, dirs, files, code_files, os_cwd, sys_path, figs, ncalls,
                   outcome, pre, image_files>>

\* What running the compiled program does (line 67).  The file-system
\* operation comes first and raises when its target is missing; what follows
\* it runs only if it did not raise.
FsopRaises(t) ==
    LET op == local[t].code.fsop
    IN CASE op = "rmapp" -> OrigDir \notin dirs
         [] op = "rmcwd" -> os_cwd \notin dirs
         [] op = "rmcode" -> local[t].temp_file_path \notin code_files
         [] op = "mkchart" -> os_cwd \notin dirs
         [] OTHER -> FALSE

Rmtree(d) == {f \in files : f.dir # d}

Touch(d, name) ==
    {f \in files : ~(f.dir = d /\ f.name = name)}
        \cup {[dir |-> d, name |-> name, recent |-> TRUE]}

\* lines 66-67: compile and run the submitted program, in the working
\* directory and with the streams, sys.path and figures that are installed
\* when it runs
Exec(t) ==
    /\ pc[t] = "exec"
    /\ LET p == local[t].code
           op == p.fsop
           compiled == p.end # "syntax"
           acts == compiled /\ ~FsopRaises(t)
           \* the working directory the rest of the program sees
           here == IF acts /\ op = "chdir" THEN OtherDir ELSE os_cwd
           \* the streams the rest of the program writes to: the code may have
           \* assigned objects of its own to sys.stdout and sys.stderr
           out == IF acts /\ op = "setstreams" THEN "code" ELSE sys_stdout
           err == IF acts /\ op = "setstreams" THEN "code" ELSE sys_stderr
       IN /\ dirs' = IF acts /\ op = "rmapp" THEN dirs \ {OrigDir}
                     ELSE IF acts /\ op = "rmcwd" THEN dirs \ {os_cwd}
                     ELSE dirs
          /\ files' = IF acts /\ op = "rmapp" THEN Rmtree(OrigDir)
                      ELSE IF acts /\ op = "rmcwd" THEN Rmtree(os_cwd)
                      ELSE IF acts /\ op = "mkchart" THEN Touch(os_cwd, "chart.png")
                      ELSE files
          /\ code_files' = IF acts /\ op = "rmcode"
                           THEN code_files \ {local[t].temp_file_path}
                           ELSE code_files
          /\ os_cwd' = here
          /\ figs' = IF acts /\ p.fig THEN Append(figs, local[t].n) ELSE figs
          /\ sys_stdout' = out
          /\ sys_stderr' = err
          /\ bufOut' = IF acts THEN WriteTo(bufOut, out, p.out) ELSE bufOut
          /\ bufErr' = IF acts THEN WriteTo(bufErr, err, p.err) ELSE bufErr
          /\ local' = [local EXCEPT
                 ![t].ran_in = os_cwd,
                 ![t].path_at_run = sys_path,
                 ![t].pending =
                     IF ~compiled THEN "SyntaxError"
                     ELSE IF ~acts THEN "FileNotFoundError"
                     ELSE CASE p.end = "raise" -> "ValueError"
                            [] p.end = "exit" -> "SystemExit"
                            [] OTHER -> "none"]
    /\ pc' = [pc EXCEPT ![t] = "release"]
    /\ UNCHANGED <<app, response, norm, memory, sys_path, ncalls, outcome, pre, image_files>>

\* leaving the with block without putting the streams back
Release_KeepStreams(t) ==
    /\ pc[t] = "release"
    /\ pc' = [pc EXCEPT ![t] =
                 IF local[t].pending = "none" THEN "post"
                 ELSE IF IsException(local[t].pending) THEN "except"
                 ELSE "finally_chdir"]
    /\ UNCHANGED <<app, response, norm, memory, dirs, files, code_files, os_cwd, sys_path,
                   sys_stdout, sys_stderr, bufOut, bufErr, figs, ncalls, local,
                   outcome, pre, image_files>>

\* leaving "with capture_output()" (lines 22-23, 64): redirect_stderr and
\* then redirect_stdout put back the streams they remembered, also when the
\* program raised.  An Exception goes to the handler, anything else (nothing
\* raised, or SystemExit) goes on.
Release(t) ==
    /\ pc[t] = "release"
    /\ sys_stdout' = local[t].old_stdout
    /\ sys_stderr' = local[t].old_stderr
    /\ pc' = [pc EXCEPT ![t] =
                 IF local[t].pending = "none" THEN "post"
                 ELSE IF IsException(local[t].pending) THEN "except"
                 ELSE "finally_chdir"]
    /\ UNCHANGED <<app, response, norm, memory, dirs, files, code_files, os_cwd, sys_path, bufOut, bufErr,
                   figs, ncalls, local, outcome, pre, image_files>>

\* line 81: the note appended to the output when a plot was saved
PlotNote(temp_dir) ==
    <<W("["), W("Plot"), W("saved"), W("to"), P(temp_dir, "plot.png"), W("]")>>

ErrorPrefix == <<W("Code"), W("execution"), W("error:")>>

\* line 88 without the output part
ErrorNarrative_NoOutput(error, output) ==
    ErrorPrefix \o error \o <<W("Output"), W("(if"), W("any):")>>

\* line 88
ErrorNarrative(error, output) ==
    ErrorPrefix \o error \o <<W("Output"), W("(if"), W("any):")>> \o output

\* line 96 without str(e)
ExceptionNarrative_NoMessage(e) == ErrorPrefix \o FormatExc(e)

\* line 96
ExceptionNarrative(e) == ErrorPrefix \o <<W(Message(e))>> \o FormatExc(e)

\* lines 76-82: plt.savefig writes plot.png into temp_dir, which fails when
\* that directory is gone; the bare except then skips the note and the close
PlotSaved(t) == figs # <<>> /\ local[t].temp_dir \in dirs

\* lines 69-90: read the buffers, save an open figure, assemble the result
Post(t) ==
    /\ pc[t] = "post"
    /\ LET output == bufOut[t]
           error == bufErr[t]
           plt_file == local[t].temp_dir
           output2 == IF PlotSaved(t) THEN output \o PlotNote(plt_file)
                      ELSE output
       IN /\ files' = IF PlotSaved(t) THEN Touch(plt_file, "plot.png") ELSE files
          /\ figs' = IF PlotSaved(t) THEN <<>> ELSE figs
          /\ local' = [local EXCEPT
                 ![t].plot = PlotSaved(t),
                 ![t].ret = IF error # <<>> THEN ErrorNarrative(error, output2)
                            ELSE output2]
    /\ pc' = [pc EXCEPT ![t] = "finally_chdir"]
    /\ UNCHANGED <<app, response, norm, memory, dirs, code_files, os_cwd, sys_path, sys_stdout, sys_stderr,
                   bufOut, bufErr, ncalls, outcome, pre, image_files>>

\* lines 92-96 with plt.close('all') in the handler
Except_ClosesFigures(t) ==
    /\ pc[t] = "except"
    /\ figs' = <<>>
    /\ local' = [local EXCEPT
           ![t].e = local[t].pending,
           ![t].pending = "none",
           ![t].ret = ExceptionNarrative(local[t].pending)]
    /\ pc' = [pc EXCEPT ![t] = "finally_chdir"]
    /\ UNCHANGED <<app, response, norm, memory, dirs, files, code_files, os_cwd, sys_path,
                   sys_stdout, sys_stderr, bufOut, bufErr, ncalls, outcome,
                   pre, image_files>>

\* lines 92-96 with the captured output added to the result
Except_WithOutput(t) ==
    /\ pc[t] = "except"
    /\ local' = [local EXCEPT
           ![t].e = local[t].pending,
           ![t].pending = "none",
           ![t].ret = ExceptionNarrative(local[t].pending) \o bufOut[t]]
    /\ pc' = [pc EXCEPT ![t] = "finally_chdir"]
    /\ UNCHANGED <<app, response, norm, memory, dirs, files, code_files, os_cwd, sys_path,
                   sys_stdout, sys_stderr, bufOut, bufErr, figs, ncalls,
                   outcome, pre, image_files>>

\* lines 92-96: an Exception raised in the try block becomes the result
Except(t) ==
    /\ pc[t] = "except"
    /\ local' = [local EXCEPT
           ![t].e = local[t].pending,
           ![t].pending = "none",
           ![t].ret = ExceptionNarrative(local[t].pending)]
    /\ pc' = [pc EXCEPT ![t] = "finally_chdir"]
    /\ UNCHANGED <<app, response, norm, memory, dirs, files, code_files, os_cwd, sys_path, sys_stdout,
                   sys_stderr, bufOut, bufErr, figs, ncalls, outcome, pre,
                   image_files>>

\* the finally block without the os.chdir(cwd) of line 100
FinallyChdir_NoRestore(t) ==
    /\ pc[t] = "finally_chdir"
    /\ pc' = [pc EXCEPT ![t] = "finally_remove"]
    /\ UNCHANGED <<app, response, norm, memory, dirs, files, code_files, os_cwd, sys_path, sys_stdout,
                   sys_stderr, bufOut, bufErr, figs, ncalls, local, outcome,
                   pre, image_files>>

\* lines 98-100: os.chdir(cwd).  It raises when that directory is gone, and
\* an exception raised in a finally block ends the call there: the rest of
\* the block is skipped and the pending return value is dropped.
FinallyChdir(t) ==
    /\ pc[t] = "finally_chdir"
    /\ IF local[t].cwd \in dirs
       THEN /\ os_cwd' = local[t].cwd
            /\ pc' = [pc EXCEPT ![t] = "finally_remove"]
            /\ UNCHANGED <<local, outcome>>
       ELSE /\ local' = [local EXCEPT ![t].pending = "FileNotFoundError",
                                      ![t].ret = <<>>]
            /\ pc' = [pc EXCEPT ![t] = "done"]
            /\ outcome' = [outcome EXCEPT ![t] = "raised"]
            /\ UNCHANGED os_cwd
    /\ UNCHANGED <<app, response, norm, memory, dirs, files, code_files, sys_path, sys_stdout, sys_stderr,
                   bufOut, bufErr, figs, ncalls, pre, image_files>>

\* lines 102-106: os.remove(temp_file_path); a missing file or an unbound
\* name is swallowed by the bare except
\* lines 102-106 followed by shutil.rmtree(temp_dir)
FinallyRemove_Rmtree(t) ==
    /\ pc[t] = "finally_remove"
    /\ code_files' = code_files \ {local[t].temp_file_path}
    /\ dirs' = dirs \ {local[t].temp_dir}
    /\ files' = Rmtree(local[t].temp_dir)
    /\ pc' = [pc EXCEPT ![t] = "finally_path"]
    /\ UNCHANGED <<app, response, norm, memory, os_cwd, sys_path, sys_stdout, sys_stderr,
                   bufOut, bufErr, figs, ncalls, local, outcome, pre,
                   image_files>>

FinallyRemove(t) ==
    /\ pc[t] = "finally_remove"
    /\ code_files' = code_files \ {local[t].temp_file_path}
    /\ pc' = [pc EXCEPT ![t] = "finally_path"]
    /\ UNCHANGED <<app, response, norm, memory, dirs, files, os_cwd, sys_path, sys_stdout, sys_stderr,
                   bufOut, bufErr, figs, ncalls, local, outcome, pre,
                   image_files>>

\* lines 108-110, and the end of the call: the value is returned, or the
\* SystemExit that passed the handler goes on to the caller
FinallyPath(t) ==
    /\ pc[t] = "finally_path"
    /\ sys_path' = IF InSeq(local[t].temp_dir, sys_path)
                   THEN RemoveFirst(sys_path, local[t].temp_dir)
                   ELSE sys_path
    /\ pc' = [pc EXCEPT ![t] = "done"]
    /\ outcome' = [outcome EXCEPT ![t] =
                      IF local[t].pending = "none" THEN "returned" ELSE "raised"]
    /\ UNCHANGED <<app, response, norm, memory, dirs, files, code_files, os_cwd, sys_stdout, sys_stderr,
                   bufOut, bufErr, figs, ncalls, local, pre, image_files>>

---------------------------------------------------------------------------
\* ReportAgent._extract_image_paths

\* re.IGNORECASE on the words the patterns begin with
Lower(w) ==
    CASE w = "Saved" -> "saved"
      [] w = "Created" -> "created"
      [] w = "Output" -> "output"
      [] w = "Written" -> "written"
      [] w = "Generated" -> "generated"
      [] OTHER -> w

\* lines 342-351: each pattern is a leading word, an optional second word
\* and a captured path with an image extension
patterns ==
    << [key |-> {"saved"}, opt |-> {"to"}],
       [key |-> {"saved"}, opt |-> {"as"}],
       [key |-> {"saved"}, opt |-> {}],
       [key |-> {"created"}, opt |-> {}],
       [key |-> {"output"}, opt |-> {"to", "as"}],
       [key |-> {"written", "generated"}, opt |-> {"to"}],
       [key |-> {"plt.savefig("}, opt |-> {}],
       [key |-> {"fig.savefig("}, opt |-> {}] >>

RECURSIVE FindAll(_, _, _)
\* re.findall(pattern, text): the captured paths, left to right from word i
FindAll(pat, text, i) ==
    IF i >= Len(text) THEN <<>>
    ELSE IF ~text[i].img /\ Lower(text[i].w) \in pat.key
         THEN IF text[i + 1].img
              THEN <<text[i + 1]>> \o FindAll(pat, text, i + 2)
              ELSE IF /\ i + 2 <= Len(text)
                      /\ text[i + 1].w \in pat.opt
                      /\ text[i + 2].img
                   THEN <<text[i + 2]>> \o FindAll(pat, text, i + 3)
                   ELSE FindAll(pat, text, i + 1)
         ELSE FindAll(pat, text, i + 1)

\* lines 359-360: os.path.abspath joins a relative path to the working
\* directory of the moment
Abspath(tok) ==
    [dir |-> IF tok.dir = RelDir THEN os_cwd ELSE tok.dir, name |-> tok.w]

\* os.path.exists
Exists(path) == \E f \in files : f.dir = path.dir /\ f.name = path.name

\* lines 355-362 without the os.path.exists test of line 361
Resolve_NoExistsCheck(matches) ==
    [i \in 1..Len(matches) |-> Abspath(matches[i])]

RECURSIVE Resolve(_)
\* lines 355-362: the matches of one pattern that name an existing file
Resolve(matches) ==
    IF matches = <<>> THEN <<>>
    ELSE (IF Exists(Abspath(Head(matches))) THEN <<Abspath(Head(matches))>>
          ELSE <<>>) \o Resolve(Tail(matches))

RECURSIVE TextMatches(_, _)
\* lines 353-362: all patterns in order, from pattern k
TextMatches(text, k) ==
    IF k > Len(patterns) THEN <<>>
    ELSE Resolve(FindAll(patterns[k], text, 1)) \o TextMatches(text, k + 1)

\* line 368: file.endswith(('.png', '.jpg', '.jpeg', '.svg', '.pdf'))
IsImage(name) == name \in {"logo.png", "chart.png", "plot.png"}

\* lines 366-374: the image files of the working directory modified in the
\* last minute; os.listdir raising is caught and leaves nothing
RecentImages ==
    IF os_cwd \in dirs
    THEN {[dir |-> f.dir, name |-> f.name] :
              f \in {g \in files : g.dir = os_cwd /\ IsImage(g.name) /\ g.recent}}
    ELSE {}

\* os.listdir returns the entries in arbitrary order
Orders(S) ==
    {s \in [1..Cardinality(S) -> S] : \A i, j \in 1..Cardinality(S) : i # j => s[i] # s[j]}

\* lines 378-382 without the "not in unique_paths" test
Unique_KeepAll(image_paths, unique_paths) == unique_paths \o image_paths

RECURSIVE Unique(_, _)
\* lines 378-382: drop repetitions, keep the first of each
Unique(image_paths, unique_paths) ==
    IF image_paths = <<>> THEN unique_paths
    ELSE Unique(Tail(image_paths),
                IF InSeq(Head(image_paths), unique_paths) THEN unique_paths
                ELSE Append(unique_paths, Head(image_paths)))

\* lines 326-384, given the order in which os.listdir gave the directory
_extract_image_paths(execution_result, listing) ==
    Unique(TextMatches(execution_result, 1) \o listing, <<>>)

\* ReportAgent.generate_report, lines 127-133: the caller takes the result of
\* execute_python_code and extracts the image paths from it.  When the call
\* raised there is no result, and generate_report's own handler takes over.
generate_report(t) ==
    /\ pc[t] = "done"
    /\ IF outcome[t] = "returned"
       THEN \E listing \in Orders(RecentImages) :
                image_files' = [image_files EXCEPT ![t] =
                                   _extract_image_paths(local[t].ret, listing)]
       ELSE image_files' = [image_files EXCEPT ![t] = <<>>]
    /\ pc' = [pc EXCEPT ![t] = "idle"]
    \* the call's locals and buffers are garbage from here on
    /\ local' = [local EXCEPT ![t] = NoLocal]
    /\ bufOut' = [bufOut EXCEPT ![t] = <<>>]
    /\ bufErr' = [bufErr EXCEPT ![t] = <<>>]
    /\ pre' = [pre EXCEPT ![t] = NoPre]
    /\ UNCHANGED <<app, response, norm, memory, dirs, files, code_files, os_cwd, sys_path, sys_stdout,
                   sys_stderr, figs, ncalls, outcome>>

\* a minute goes by: no file counts as recently modified any more
TimePasses ==
    /\ \E f \in files : f.recent
    /\ \A t \in Threads : pc[t] \in {"idle", "done"}
    /\ files' = {[f EXCEPT !.recent = FALSE] : f \in files}
    /\ UNCHANGED <<app, response, norm, memory, dirs, code_files, os_cwd, sys_path, sys_stdout, sys_stderr,
                   bufOut, bufErr, figs, ncalls, pc, local, outcome, pre,
                   image_files>>

---------------------------------------------------------------------------
\* the steps of a call in progress
ExecStep(t) ==
    \/ Try(t)
    \/ capture_output(t)
    \/ Exec(t)
    \/ Release(t)
    \/ Post(t)
    \/ Except(t)
    \/ FinallyChdir(t)
    \/ FinallyRemove(t)
    \/ FinallyPath(t)

\* the steps of a call and of ReportAgent taking its result
Step(t) ==
    \/ ExecStep(t)
    \/ generate_report(t)

\* calls that do not overlap: a call begins only when no other is in progress
SerialCall(t) ==
    /\ \A u \in Threads : pc[u] = "idle"
    /\ \E code \in Programs, file_path \in DataPaths : Call(t, code, file_path)

Next ==
    \/ SerialCall(Main)
    \/ \E t \in Threads : Step(t)
    \/ TimePasses

Spec == Init /\ [][Next]_vars

\* Calls from two threads with nothing that serializes them: the module has
\* no lock, and the agents call execute_python_code directly.
ConcPrograms ==
    [out : {Hello}, err : {<<>>}, fsop : {"none", "chdir", "mkchart"},
     fig : {FALSE}, end : {"ok", "raise"}]

ConcurrentCall(t) ==
    \E code \in ConcPrograms : Call(t, code, None)

NextConc ==
    \/ \E t \in Threads : ConcurrentCall(t)
    \/ \E t \in Threads : Step(t)
    \/ TimePasses

SpecConc == Init /\ [][NextConc]_vars

---------------------------------------------------------------------------
\* The call of thread t has ended / has ended by returning its result.
Ended(t) == pc[t] = "done"
Returned(t) == pc[t] = "done" /\ outcome[t] = "returned"

\* C1: every call of execute_python_code ends by returning a string to its
\* caller, whatever the submitted code does and whatever cleanup step fails;
\* it never raises.
C1_NeverRaises ==
    \A t \in Threads : Ended(t) => outcome[t] = "returned"

\* C2: after a call that returned (output or error narrative), the process
\* working directory is what it was immediately before the call.
C2_CwdRestored ==
    \A t \in Threads : Returned(t) => os_cwd = pre[t].cwd

\* a returned call whose code ran in the scratch directory and left it
C2_Witness ==
    \E t \in Threads :
        /\ Returned(t)
        /\ local[t].code.fsop = "chdir"
        /\ local[t].ran_in = local[t].temp_dir
        /\ pre[t].cwd = OrigDir

\* C3: on every exit path the scratch directory of the call is no longer an
\* entry of sys.path when the call ends.
C3_PathEntryRemoved ==
    \A t \in Threads : Ended(t) => ~InSeq(local[t].temp_dir, sys_path)

\* C4: on every exit path the temporary code file of the call is deleted
\* (and when there is nothing to delete, the call ends as it would have).
C4_CodeFileDeleted ==
    \A t \in Threads :
        Ended(t) =>
            /\ local[t].temp_file_path \notin code_files
            /\ (local[t].code.fsop = "rmcode" /\ local[t].code.end = "ok"
                    => outcome[t] = "returned")

\* the submitted code of thread t's call raised an Exception, which the
\* handler of execute_python_code caught
CodeRaised(t) == local[t].e # "none"

CodeFinished(t) ==
    /\ local[t].code.end = "ok"
    /\ local[t].e = "none"
    /\ local[t].pending = "none"

\* s is the beginning of r
IsPrefix(s, r) == Len(s) <= Len(r) /\ SubSeq(r, 1, Len(s)) = s

\* C6 as stated: when the code finishes without raising, the result is an
\* error narrative holding the stderr text followed by the captured stdout
\* if stderr was written to, and the captured stdout verbatim otherwise.
C6_StdoutVerbatim ==
    \A t \in Threads :
        Returned(t) /\ CodeFinished(t) =>
            IF bufErr[t] # <<>>
            THEN IsPrefix(<<W("Code"), W("execution"), W("error:")>> \o bufErr[t]
                            \o <<W("Output"), W("(if"), W("any):")>> \o bufOut[t],
                          local[t].ret)
            ELSE local[t].ret = bufOut[t]

\* an open figure was saved by thread t's call: one was open when the code
\* ended (left by an earlier call or drawn by this one) and the scratch
\* directory was still there
FigureSaved(t) ==
    /\ pre[t].figs # <<>> \/ local[t].code.fig
    /\ local[t].code.fsop # "rmcwd"

\* C6, amended: when the code finishes without raising, the output is the
\* captured stdout, followed by the note "[Plot saved to <scratch>/plot.png]"
\* when an open figure was saved; the result is the error narrative holding
\* the stderr text followed by that output if stderr was written to, and
\* that output otherwise.
C6_ResultByErrorBuffer ==
    \A t \in Threads :
        Returned(t) /\ CodeFinished(t) =>
            LET note == <<W("["), W("Plot"), W("saved"), W("to"),
                          P(local[t].temp_dir, "plot.png"), W("]")>>
                output == IF FigureSaved(t) THEN bufOut[t] \o note ELSE bufOut[t]
            IN local[t].ret =
                   IF bufErr[t] # <<>>
                   THEN <<W("Code"), W("execution"), W("error:")>> \o bufErr[t]
                            \o <<W("Output"), W("(if"), W("any):")>> \o output
                   ELSE output

\* both branches happen: stderr written with a figure saved, and neither
C6_Witness ==
    \E t \in Threads :
        /\ Returned(t) /\ CodeFinished(t)
        /\ bufErr[t] = Warn /\ bufOut[t] = Hello
        /\ FigureSaved(t)
        /\ Len(local[t].ret) = 14

PrintOnly(code) ==
    /\ code.out = Hello /\ code.err = <<>> /\ code.fsop = "none"
    /\ ~code.fig /\ code.end = "ok"

\* C7: code that only prints T to stdout gets exactly T back, in every state
\* reachable after any sequence of earlier calls.
C7_PrintOnlyExact ==
    \A t \in Threads :
        Ended(t) /\ PrintOnly(local[t].code) =>
            outcome[t] = "returned" /\ local[t].ret = Hello

\* C8: when the code of a later call starts running, no earlier call's
\* scratch directory is the working directory or an entry of sys.path.
C8_NoLeakIntoNextCall ==
    \A t \in Threads :
        pc[t] = "exec" =>
            \A n \in 1..(local[t].n - 1) :
                /\ os_cwd # mkdtemp(n)
                /\ ~InSeq(mkdtemp(n), sys_path)

\* C9: calls from different threads never share the working directory: no
\* call records or runs in another call's scratch directory, and once all
\* calls have returned the working directory is what it was before them.
C9_NoSharedCwd ==
    /\ \A t, u \in Threads :
           t # u /\ local[u].temp_dir # RelDir =>
               /\ local[t].cwd # local[u].temp_dir
               /\ local[t].ran_in # local[u].temp_dir
    /\ (\A t \in Threads : pc[t] \in {"idle", "done"} /\ outcome[t] # "raised")
           => os_cwd = OrigDir

ChartProgram(code) ==
    /\ code.out = SavedChart /\ code.err = <<>> /\ code.fsop = "mkchart"
    /\ ~code.fig /\ code.end = "ok"

\* C10: for code that creates chart.png in the scratch directory and prints
\* "saved to chart.png", the list extracted from the returned result is
\* exactly one absolute path ending in chart.png.
C10_ChartFound ==
    [][\A t \in Threads :
           /\ Returned(t)
           /\ ChartProgram(local[t].code)
           /\ pc'[t] = "idle"
           => /\ Len(image_files'[t]) = 1
              /\ image_files'[t][1].name = "chart.png"
              /\ image_files'[t][1].dir # RelDir]_vars

\* the step is the caller's extraction from the result thread t got back
Extracts(t) == Returned(t) /\ pc'[t] = "idle"

NoImageProgram(code) ==
    /\ code.out \in {<<>>, Hello}
    /\ ~code.fig
    /\ code.fsop # "mkchart"

\* C11: for code that draws no figure, writes no image file and prints no
\* save phrase, the list extracted from the returned result is empty,
\* whatever earlier calls did.
C11_NoImageEmptyList ==
    [][\A t \in Threads :
           Extracts(t) /\ NoImageProgram(local[t].code)
               => image_files'[t] = <<>>]_vars

NoDup(s) == \A i, j \in 1..Len(s) : i # j => s[i] # s[j]

FirstIndex(x, s) ==
    CHOOSE i \in 1..Len(s) : s[i] = x /\ \A j \in 1..(i - 1) : s[j] # x

\* r holds each element of raw once, in the order of first appearance in raw
IsFirstSeenOrder(r, raw) ==
    /\ NoDup(r)
    /\ {r[i] : i \in 1..Len(r)} = {raw[i] : i \in 1..Len(raw)}
    /\ \A i, j \in 1..Len(r) :
           i < j => FirstIndex(r[i], raw) < FirstIndex(r[j], raw)

\* C16: the extracted list holds no path twice, and its elements are in the
\* order they were first found: the text matches in pattern order, then the
\* entries of the directory scan.
C16_DedupFirstSeen ==
    [][\A t \in Threads :
           Extracts(t) =>
               \E listing \in Orders(RecentImages) :
                   IsFirstSeenOrder(image_files'[t],
                                    TextMatches(local[t].ret, 1) \o listing)]_vars

\* a result whose text names the same existing file more than once
C16_Witness ==
    \E t \in Threads :
        /\ Returned(t)
        /\ Len(TextMatches(local[t].ret, 1)) >= 2
        /\ ~NoDup(TextMatches(local[t].ret, 1))

\* C17: every extracted path is absolute and names a file that exists when
\* the scan runs; a relative match is resolved against the working directory
\* of that moment and dropped when the resolved path does not exist.
C17_AbsoluteExisting ==
    [][\A t \in Threads :
           Extracts(t) =>
               \A i \in 1..Len(image_files'[t]) :
                   LET path == image_files'[t][i]
                   IN /\ path.dir # RelDir
                      /\ \E f \in files : f.dir = path.dir /\ f.name = path.name]_vars

\* a result with a relative match that does not resolve to a file and an
\* absolute one that does
C17_Witness ==
    \E t \in Threads :
        /\ Returned(t)
        /\ local[t].code.out = SavedChart
        /\ local[t].plot
        /\ Len(FindAll(patterns[1], local[t].ret, 1)) = 2
        /\ Len(TextMatches(local[t].ret, 1)) = 1

\* C18: sys.stdout and sys.stderr are the call's buffers only while the
\* submitted code runs, and after a call returned they are the objects they
\* were before the call, also when the code raised or reassigned them.
C18_StreamsReleased ==
    \A t \in Threads :
        /\ Returned(t) =>
               sys_stdout = pre[t].stdout /\ sys_stderr = pre[t].stderr
        /\ sys_stdout = t \/ sys_stderr = t => pc[t] \in {"exec", "release"}

\* the code assigned its own streams, raised, and the call returned
C18_Witness ==
    \E t \in Threads :
        /\ Returned(t)
        /\ local[t].code.fsop = "setstreams"
        /\ local[t].code.end = "raise"
        /\ local[t].e = "ValueError"

\* the step is the submitted code of some call running
CodeRuns == \E t \in Threads : pc[t] = "exec" /\ pc'[t] = "release"

\* C19: the code runs with file_path bound to the data path passed to the
\* call (None when absent), and no step of execute_python_code other than
\* the submitted code touches the file at that path.
C19_FilePathBound ==
    [][/\ \A t \in Threads :
              pc'[t] = "exec" => local'[t].scope = local'[t].file_path
       /\ ~CodeRuns => (DataFile \in files <=> DataFile \in files')]_vars

\* the code of a call with a data path is about to run
C19_Witness ==
    \E t \in Threads :
        /\ pc[t] = "exec"
        /\ local[t].file_path = "data.csv"
        /\ local[t].scope = "data.csv"
        /\ DataFile \in files

(***************************************************************************)
(* _clean_code_for_execution (code_executor.py lines 112-134).  A string   *)
(* is a sequence of tokens: the fence of three backticks, the words        *)
(* "python", "py" and "js", the space, the newline, and "x" for any other  *)
(* text.                                                                   *)
(***************************************************************************)
MaxLen == 4
MaxBody == 2

\* the three backticks that open or close a block
Fence == "fence"

IsSpace(c) == c \in {" ", "\n"}

Alphabet == {Fence, "py", "js", " ", "\n", "x"}

SeqsUpTo(S, n) == UNION {[1..k -> S] : k \in 0..n}

\* language tags of an opening fence line: none, python, py, another one
Tags == {<<>>, <<"python">>, <<"py">>, <<"js">>}

Bodies == SeqsUpTo({"x", " ", "\n"}, MaxBody)

Proses == {<<>>, <<"x">>}

\* opening fence, optional tag, newline, body, closing fence
Block(tag, B) == <<Fence>> \o tag \o <<"\n">> \o B \o <<Fence>>

OneBlock ==
    {before \o Block(tag, B) \o after :
        before \in Proses, tag \in Tags, B \in Bodies, after \in Proses}

TwoBlocks ==
    {before \o Block(tag1, B1) \o between \o Block(tag2, B2) :
        before \in Proses, tag1 \in Tags, B1 \in Bodies,
        between \in Proses, tag2 \in Tags, B2 \in Bodies}

Inputs == SeqsUpTo(Alphabet, MaxLen) \cup OneBlock \cup TwoBlocks

\* position of the first fence at or after i, 0 when there is none
FindFence(code, i) ==
    LET at == {j \in i..Len(code) : code[j] = Fence}
    IN IF at = {} THEN 0 ELSE CHOOSE j \in at : \A k \in at : j <= k

\* position of the last fence at or after i, 0 when there is none
FindLastFence(code, i) ==
    LET at == {j \in i..Len(code) : code[j] = Fence}
    IN IF at = {} THEN 0 ELSE CHOOSE j \in at : \A k \in at : j >= k

\* (?:python|py)?
SkipTag(code, i) ==
    IF i <= Len(code) /\ code[i] \in {"python", "py"} THEN i + 1 ELSE i

RECURSIVE SkipSpace(_, _)
\* \s*
SkipSpace(code, i) ==
    IF i <= Len(code) /\ IsSpace(code[i]) THEN SkipSpace(code, i + 1) ELSE i

RECURSIVE re_findall_greedy(_, _)
\* the pattern of line 126 with a greedy body ([\s\S]*), which runs to the
\* last fence
re_findall_greedy(code, i) ==
    LET open == FindFence(code, i)
        start == SkipSpace(code, SkipTag(code, open + 1))
        close == FindLastFence(code, open + 1)
    IN IF open = 0 \/ close = 0 THEN <<>>
       ELSE IF close < start
            THEN <<SubSeq(code, close, close - 1)>> \o re_findall_greedy(code, close + 1)
            ELSE <<SubSeq(code, start, close - 1)>> \o re_findall_greedy(code, close + 1)

RECURSIVE re_findall(_, _)
\* re.findall(code_block_pattern, code) from position i (lines 126-127): the
\* captured bodies of the non-overlapping matches, left to right.  A match
\* starts at a fence that has a later fence; the optional tag and the white
\* space after it are consumed, and the lazy body ends at the next fence.
re_findall(code, i) ==
    LET open == FindFence(code, i)
        start == SkipSpace(code, SkipTag(code, open + 1))
        close == FindFence(code, start)
    IN IF open = 0 \/ close = 0 THEN <<>>
       ELSE <<SubSeq(code, start, close - 1)>> \o re_findall(code, close + 1)

RECURSIVE lstrip(_)
lstrip(s) == IF s # <<>> /\ IsSpace(Head(s)) THEN lstrip(Tail(s)) ELSE s

RECURSIVE rstrip(_)
rstrip(s) ==
    IF s # <<>> /\ IsSpace(s[Len(s)]) THEN rstrip(SubSeq(s, 1, Len(s) - 1)) ELSE s

\* str.strip()
strip(s) == rstrip(lstrip(s))

\* lines 112-134 with the last line returning code.strip()
_clean_code_stripping(code) ==
    LET code_blocks == re_findall(code, 1)
    IN IF code_blocks # <<>> THEN strip(code_blocks[1]) ELSE strip(code)

\* lines 112-134
_clean_code_for_execution(code) ==
    LET code_blocks == re_findall(code, 1)
    IN IF code_blocks # <<>> THEN strip(code_blocks[1]) ELSE code

InitNorm ==
    /\ ExecInit
    /\ memory = NoMemory
    /\ app = NoApp
    /\ norm \in {[NoNorm EXCEPT !.stage = "input", !.code = code] :
                    code \in Inputs}

\* line 39: code = _clean_code_for_execution(code)
Clean ==
    /\ norm.stage = "input"
    /\ norm' = [norm EXCEPT !.stage = "cleaned",
                            !.out = _clean_code_for_execution(norm.code)]
    /\ UNCHANGED <<execVars, app, memory>>

\* the result given to _clean_code_for_execution a second time
CleanAgain ==
    /\ norm.stage = "cleaned"
    /\ norm' = [norm EXCEPT !.stage = "again",
                            !.again = _clean_code_for_execution(norm.out)]
    /\ UNCHANGED <<execVars, app, memory>>

NextNorm == Clean \/ CleanAgain

SpecNorm == InitNorm /\ [][NextNorm]_vars

Cleaned == norm.stage \in {"cleaned", "again"}

Count(code, c) == Cardinality({i \in 1..Len(code) : code[i] = c})

\* C12: for an input with exactly one fenced block (fence, optional tag of
\* any language, newline, body B, fence) the result is exactly trim(B).
C12_OneBlockTrimmedBody ==
    \A before \in Proses, tag \in Tags, B \in Bodies, after \in Proses :
        Cleaned /\ norm.code = before \o Block(tag, B) \o after
            => norm.out = strip(B)

\* C13 as stated: an input without a fenced block comes back trimmed.
C13_NoBlockTrimmed ==
    Cleaned /\ Count(norm.code, Fence) = 0 => norm.out = strip(norm.code)

\* C13, amended: an input without a pair of fences comes back unchanged,
\* leading and trailing white space included; the empty string yields the
\* empty string.
C13_NoBlockUnchanged ==
    Cleaned /\ Count(norm.code, Fence) < 2 => norm.out = norm.code

\* an input without fence that starts and ends with white space
C13_Witness ==
    /\ Cleaned
    /\ norm.code = <<" ", "x", "\n">>
    /\ norm.out = <<" ", "x", "\n">>

\* C14: for an input with two fenced blocks B1, B2 the result is trim(B1)
\* only.
C14_FirstBlockOnly ==
    \A before \in Proses, tag1 \in Tags, B1 \in Bodies,
       between \in Proses, tag2 \in Tags, B2 \in Bodies :
        Cleaned /\ norm.code = before \o Block(tag1, B1) \o between \o Block(tag2, B2)
            => norm.out = strip(B1)

\* C15: cleaning the result of cleaning gives the same string.
C15_Idempotent ==
    norm.stage = "again" => norm.again = norm.out

\* an input with two blocks, cleaned twice, whose result is not the input
C15_Witness ==
    /\ norm.stage = "again"
    /\ norm.code \in TwoBlocks
    /\ norm.out # norm.code
    /\ norm.out # <<>>
    /\ norm.again = norm.out

(***************************************************************************)
(* ChatMemory (chat_memory.py).  A message is a record of role and         *)
(* content; memory.calls counts the add and clear calls made so far,       *)
(* memory.added holds the messages added since the last clear, and         *)
(* memory.asked and memory.got hold the argument and the result of the     *)
(* last get_last_n_messages call made since the last change (asked is -1   *)
(* when there was none).                                                   *)
(***************************************************************************)
MaxHistory == 2
MaxAdds == 4

\* values of the max_history argument (line 9)
MaxHistories == 0..MaxHistory

Contents == {"a", "b"}

\* s[start:] of a Python list, start of either sign
SliceFrom(s, start) ==
    LET n == Len(s)
        lo == IF start < 0
              THEN (IF n + start < 0 THEN 0 ELSE n + start)
              ELSE (IF start > n THEN n ELSE start)
    IN SubSeq(s, lo + 1, n)

\* lines 9-18
ChatMemory(max_history) ==
    /\ ~memory.made
    /\ memory' = [memory EXCEPT !.made = TRUE,
                                !.messages = <<>>,
                                !.max_history = max_history]
    /\ UNCHANGED <<execVars, app, norm>>

\* lines 59-70 trimming with self.messages[:self.max_history]
_add_message_KeepOldest(self, message) ==
    LET messages == Append(self.messages, message)
    IN IF Len(messages) > self.max_history
       THEN SubSeq(messages, 1, self.max_history)
       ELSE messages

\* lines 59-70: self.messages after the call
_add_message(self, message) ==
    LET messages == Append(self.messages, message)
    IN IF Len(messages) > self.max_history
       THEN SliceFrom(messages, -self.max_history)
       ELSE messages

\* lines 20-31
add_user_message(content) ==
    /\ memory.made
    /\ memory.calls < MaxAdds
    /\ memory' = [memory EXCEPT
                     !.messages = _add_message(memory, [role |-> "user",
                                                        content |-> content]),
                     !.added = Append(@, [role |-> "user", content |-> content]),
                     !.asked = -1,
                     !.got = <<>>,
                     !.calls = @ + 1]
    /\ UNCHANGED <<execVars, app, norm>>

\* lines 33-44
add_assistant_message(content) ==
    /\ memory.made
    /\ memory.calls < MaxAdds
    /\ memory' = [memory EXCEPT
                     !.messages = _add_message(memory, [role |-> "assistant",
                                                        content |-> content]),
                     !.added = Append(@, [role |-> "assistant", content |-> content]),
                     !.asked = -1,
                     !.got = <<>>,
                     !.calls = @ + 1]
    /\ UNCHANGED <<execVars, app, norm>>

\* lines 46-57
add_system_message(content) ==
    /\ memory.made
    /\ memory.calls < MaxAdds
    /\ memory' = [memory EXCEPT
                     !.messages = _add_message(memory, [role |-> "system",
                                                        content |-> content]),
                     !.added = Append(@, [role |-> "system", content |-> content]),
                     !.asked = -1,
                     !.got = <<>>,
                     !.calls = @ + 1]
    /\ UNCHANGED <<execVars, app, norm>>

\* lines 115-118
clear ==
    /\ memory.made
    /\ memory.calls < MaxAdds
    /\ memory' = [memory EXCEPT !.messages = <<>>, !.added = <<>>,
                                !.asked = -1, !.got = <<>>, !.calls = @ + 1]
    /\ UNCHANGED <<execVars, app, norm>>

\* line 91: the value returned
get_last_n_messages(self, n) ==
    IF n < Len(self.messages) THEN SliceFrom(self.messages, -n)
    ELSE self.messages

\* a caller asks for the last n messages (lines 81-91)
AskLast(n) ==
    /\ memory.made
    /\ memory.asked = -1
    /\ memory' = [memory EXCEPT !.asked = n,
                                !.got = get_last_n_messages(memory, n)]
    /\ UNCHANGED <<execVars, app, norm>>

InitMem == ExecInit /\ norm = NoNorm /\ memory = NoMemory /\ app = NoApp

NextMem ==
    \/ \E max_history \in MaxHistories : ChatMemory(max_history)
    \/ \E content \in Contents : add_user_message(content)
    \/ \E content \in Contents : add_assistant_message(content)
    \/ \E content \in Contents : add_system_message(content)
    \/ clear
    \/ \E n \in 0..MaxAdds : AskLast(n)

SpecMem == InitMem /\ [][NextMem]_vars

\* C20: a ChatMemory never holds more than max_history messages, whatever
\* max_history it was made with (0 included) and whatever calls were made.
C20_AtMostMaxHistory ==
    memory.made => Len(memory.messages) <= memory.max_history

Min(a, b) == IF a < b THEN a ELSE b

\* the last k elements of s, for 0 <= k <= Len(s)
LastK(s, k) == SubSeq(s, Len(s) - k + 1, Len(s))

\* C21: get_last_n_messages(n) returns the last min(n, len(messages))
\* stored messages in order, for every n >= 0 (0 included).
C21_LastNMessages ==
    memory.asked >= 0 =>
        memory.got = LastK(memory.messages,
                           Min(memory.asked, Len(memory.messages)))

\* C28: with max_history >= 1 the stored messages are the last
\* min(k, max_history) of the k messages added since the last clear, in the
\* order they were added, each with the role of the method that added it.
C28_OldestDroppedFirst ==
    memory.made /\ memory.max_history >= 1 =>
        memory.messages =
            LastK(memory.added, Min(Len(memory.added), memory.max_history))

\* more messages of different roles were added than the memory may hold
C28_Witness ==
    /\ memory.made
    /\ memory.max_history = 2
    /\ Len(memory.added) = 4
    /\ memory.added[1].role = "user"
    /\ memory.messages = <<[role |-> "assistant", content |-> "a"],
                           [role |-> "system", content |-> "b"]>>

\* the file plot.png of thread t's scratch directory is on disk
PlotOnDisk(t) ==
    \E f \in files : f.dir = local[t].temp_dir /\ f.name = "plot.png"

\* the result of thread t's call holds the plot note of its scratch directory
NoteInResult(t) == InSeq(P(local[t].temp_dir, "plot.png"), local[t].ret)

\* C22: when the code finishes without raising and leaves a figure open, the
\* call saves plot.png in its scratch directory, appends the note naming it
\* and closes all figures: none is open when the call returns.
C22_FigureCaptured ==
    \A t \in Threads :
        Returned(t) /\ CodeFinished(t) /\ local[t].code.fig =>
            /\ PlotOnDisk(t)
            /\ NoteInResult(t)
            /\ figs = <<>>

\* C24 as stated: after every call that returned, its scratch directory is
\* still on disk.
C24_ScratchDirStays ==
    \A t \in Threads : Returned(t) => local[t].temp_dir \in dirs

\* C24, amended: no step of execute_python_code other than the submitted
\* code removes a scratch directory or a file in one, so after a call
\* returned its scratch directory and the plot.png saved in it are on disk
\* unless the code itself deleted the directory; every call makes exactly one
\* new scratch directory.
C24_ExecutorKeepsScratchDir ==
    [][/\ ~CodeRuns =>
              /\ \A d \in ScratchDirs : d \in dirs => d \in dirs'
              /\ \A f \in files :
                     f.dir \in ScratchDirs =>
                         \E g \in files' : g.dir = f.dir /\ g.name = f.name
       /\ \A t \in Threads :
              Returned(t) /\ local[t].code.fsop # "rmcwd" =>
                  /\ local[t].temp_dir \in dirs
                  /\ local[t].plot => PlotOnDisk(t)
       /\ ~CodeRuns =>
              Cardinality(dirs' \cap ScratchDirs) =
                  Cardinality(dirs \cap ScratchDirs)
                      + (IF ncalls' # ncalls THEN 1 ELSE 0)]_vars

\* two calls returned, the second saved a plot, and both scratch
\* directories are on disk
C24_Witness ==
    \E t \in Threads :
        /\ Returned(t)
        /\ local[t].n = 2
        /\ local[t].plot
        /\ PlotOnDisk(t)
        /\ mkdtemp(1) \in dirs /\ mkdtemp(2) \in dirs

\* the code of t's call drew a figure and then raised an Exception
RaisedAfterDrawing(t) ==
    /\ local[t].code.fig
    /\ local[t].code.end = "raise"
    /\ local[t].e = "ValueError"

C26_OutputDroppedOnRaise ==
    \A t \in Threads :
        Returned(t) /\ CodeRaised(t) =>
            /\ local[t].ret = ErrorPrefix \o <<W(Message(local[t].e))>>
                                  \o FormatExc(local[t].e)
            /\ \A i \in 1..Len(bufOut[t]) : ~InSeq(bufOut[t][i], local[t].ret)
            /\ \A i \in 1..Len(bufErr[t]) : ~InSeq(bufErr[t][i], local[t].ret)

\* the code wrote to both streams and then raised
C26_Witness ==
    \E t \in Threads :
        /\ Returned(t)
        /\ local[t].e = "ValueError"
        /\ bufOut[t] = Hello
        /\ bufErr[t] = Warn

\* programs of overlapping calls that print or stay silent
CapturePrograms ==
    [out : {<<>>, Hello}, err : {<<>>}, fsop : {"none"}, fig : {FALSE},
     end : {"ok", "raise"}]

OverlappingCall(t) ==
    \E code \in CapturePrograms : Call(t, code, None)

\* these programs make no file, so no file ages
NextCapture ==
    \/ \E t \in Threads : OverlappingCall(t)
    \/ \E t \in Threads : Step(t)

SpecCapture == Init /\ [][NextCapture]_vars

\* C27: for calls on different threads, under every interleaving, a result
\* holds only text its own code wrote, and once no call is in progress
\* sys.stdout and sys.stderr are the streams installed before any call.
C27_CaptureIsolated ==
    /\ \A t \in Threads :
           Returned(t) /\ local[t].code.out = <<>> =>
               ~InSeq(W("hello"), local[t].ret)
    /\ (\A t \in Threads : ~InFlight(t)) =>
           sys_stdout = "orig" /\ sys_stderr = "orig"

(***************************************************************************)
(* ExcelAgent._handle_visualization_query (excel_agent.py lines 257-319):  *)
(* the caller that answers the user from the result of a call.             *)
(***************************************************************************)
\* lines 263-267: the three patterns "saved [to ]", "saved [as ]", "saved "
excel_patterns ==
    << [key |-> {"saved"}, opt |-> {"to"}],
       [key |-> {"saved"}, opt |-> {"as"}],
       [key |-> {"saved"}, opt |-> {}] >>

RECURSIVE ExcelFound(_, _)
\* lines 269-270: the matches of all patterns in order, from pattern k
ExcelFound(text, k) ==
    IF k > Len(excel_patterns) THEN <<>>
    ELSE FindAll(excel_patterns[k], text, 1) \o ExcelFound(text, k + 1)

\* "import os" at line 283, inside the function, makes os a local name of the
\* whole function: it has no value until that line has run
os_local_at(line) == IF line < 283 THEN "unbound" ELSE "module os"

Basenames(image_paths) == [i \in 1..Len(image_paths) |-> image_paths[i].name]

\* lines 257-319, given the order in which os.listdir gave the directory:
\* the kind of answer and the file names it lists
VisualizationResponse(execution_result, listing) ==
    LET found == ExcelFound(execution_result, 1)
    IN IF found # <<>> /\ os_local_at(275) = "unbound"
       \* line 275 reads os for the first match: UnboundLocalError, caught by
       \* the handler of lines 315-319
       THEN [kind |-> "error", names |-> <<>>]
       ELSE LET image_paths == Resolve(found) \o listing
            IN IF image_paths # <<>>
               THEN [kind |-> "listed", names |-> Basenames(image_paths)]
               ELSE [kind |-> "no_images", names |-> <<>>]

\* lines 257-319: ExcelAgent takes the result of execute_python_code.  An
\* Exception raised by the call is answered with the error message; a
\* SystemExit passes through the handler of line 315.
_handle_visualization_query(t) ==
    /\ pc[t] = "done"
    /\ IF outcome[t] = "returned"
       THEN \E listing \in Orders(RecentImages) :
                response' = [response EXCEPT ![t] =
                                VisualizationResponse(local[t].ret, listing)]
       ELSE response' = [response EXCEPT ![t] =
                [kind |-> IF IsException(local[t].pending) THEN "error"
                          ELSE "raised",
                 names |-> <<>>]]
    /\ pc' = [pc EXCEPT ![t] = "idle"]
    /\ local' = [local EXCEPT ![t] = NoLocal]
    /\ bufOut' = [bufOut EXCEPT ![t] = <<>>]
    /\ bufErr' = [bufErr EXCEPT ![t] = <<>>]
    /\ pre' = [pre EXCEPT ![t] = NoPre]
    /\ UNCHANGED <<app, norm, memory, dirs, files, code_files, os_cwd, sys_path,
                   sys_stdout, sys_stderr, figs, ncalls, outcome, image_files>>

NextExcel ==
    \/ SerialCall(Main)
    \/ \E t \in Threads : ExecStep(t)
    \/ \E t \in Threads : _handle_visualization_query(t)
    \/ TimePasses

SpecExcel == Init /\ [][NextExcel]_vars

\* C23: whenever the result holds a phrase "saved [to|as] <path>" whose path
\* is an image file that exists, the answer lists that file's base name and
\* is not the visualization-error message.
C23_SavedImageListed ==
    [][\A t \in Threads :
           Returned(t) /\ pc'[t] = "idle" =>
               \A tok \in {ExcelFound(local[t].ret, 1)[i] :
                              i \in 1..Len(ExcelFound(local[t].ret, 1))} :
                   Exists(Abspath(tok)) =>
                       /\ response'[t].kind = "listed"
                       /\ InSeq(tok.w, response'[t].names)]_vars

(***************************************************************************)
(* The Streamlit app (app.py) and the registry of RouterAgent              *)
(* (router_agent.py).  Every action is one thing the user does, followed   *)
(* by the run of the script that Streamlit makes for it.                   *)
(***************************************************************************)
FileNames == {"a.csv", "b.pdf", "c.xlsx"}

\* router_agent.py lines 207-225, on the MIME type of the file
_get_agent_for_file_type(file_name) ==
    IF file_name \in {"a.csv", "c.xlsx"} THEN "ExcelAgent" ELSE "PdfAgent"

Keys(documents) == {documents[i] : i \in 1..Len(documents)}

\* documents[file_name] = doc_info on a dict: a new key goes last, an old
\* key keeps its place
SetItem(documents, file_name) ==
    IF file_name \in Keys(documents) THEN documents
    ELSE Append(documents, file_name)

\* app.py lines 95-124 with save_uploaded_file (lines 48-72) and
\* RouterAgent.process_document (router_agent.py lines 38-91)
handle_file_upload(a) ==
    IF a.uploaded_file = "None" THEN a
    ELSE [a EXCEPT
             !.documents = @ \cup {a.uploaded_file},
             !.router_documents =
                 IF a.router_agent THEN SetItem(@, a.uploaded_file) ELSE @]

\* app.py lines 236-247: main returns before the upload section while there
\* is no API key
main(a) == IF a.router_agent THEN handle_file_upload(a) ELSE a

\* app.py lines 74-92: "Set API Key" makes a new RouterAgent, whose registry
\* is empty (router_agent.py line 35)
SetApiKey ==
    /\ app' = main([app EXCEPT !.router_agent = TRUE,
                               !.router_documents = <<>>,
                               !.routed = {}])
    /\ UNCHANGED <<execVars, norm, memory>>

\* the user puts a file into the uploader
ChooseFile(file_name) ==
    /\ app.router_agent
    /\ app' = main([app EXCEPT !.uploaded_file = file_name, !.routed = {}])
    /\ UNCHANGED <<execVars, norm, memory>>

\* the user takes the file out of the uploader
ClearFile ==
    /\ app.router_agent
    /\ app.uploaded_file # "None"
    /\ app' = main([app EXCEPT !.uploaded_file = "None", !.routed = {}])
    /\ UNCHANGED <<execVars, norm, memory>>

\* app.py lines 126-149: "Remove" deletes the entry of the session and calls
\* st.rerun(), which runs the script again from the top
Remove(doc_name) ==
    /\ app.router_agent
    /\ LET shown == handle_file_upload(app)
       IN /\ doc_name \in shown.documents
          /\ app' = main([shown EXCEPT !.documents = @ \ {doc_name},
                                       !.routed = {}])
    /\ UNCHANGED <<execVars, norm, memory>>

\* router_agent.py lines 93-171: the documents on whose behalf the query
\* goes to a specialised agent, given what the routing reply holds
process_query(documents, routing_decision) ==
    LET of(agent) ==
            {d \in Keys(documents) : _get_agent_for_file_type(d) = agent}
    IN IF documents = <<>> THEN {}
       ELSE CASE routing_decision = "EXCEL" -> of("ExcelAgent")
              [] routing_decision = "PDF" -> of("PdfAgent")
              [] OTHER -> {documents[Len(documents)]}

\* app.py lines 151-201: the user asks something
Query(routing_decision) ==
    /\ app.router_agent
    /\ LET a == main(app)
       IN app' = [a EXCEPT !.routed =
                               process_query(a.router_documents, routing_decision)]
    /\ UNCHANGED <<execVars, norm, memory>>

InitApp == ExecInit /\ norm = NoNorm /\ memory = NoMemory /\ app = NoApp

NextApp ==
    \/ SetApiKey
    \/ \E file_name \in FileNames : ChooseFile(file_name)
    \/ ClearFile
    \/ \E doc_name \in FileNames : Remove(doc_name)
    \/ \E routing_decision \in {"EXCEL", "PDF", "OTHER"} : Query(routing_decision)

SpecApp == InitApp /\ [][NextApp]_vars

\* C29: every document name in RouterAgent.documents is a key of the
\* session's documents, so no query goes to an agent on behalf of a
\* document the user has removed.
C29_RegistryWithinSession ==
    /\ Keys(app.router_documents) \subseteq app.documents
    /\ app.routed \subseteq app.documents

====
